---- MODULE Spec2Model ----
(***************************************************************************)
(* Model of pynbody/sph/kdmain.c: the host-facing binding layer of the     *)
(* k-d tree / SPH smoothing engine.  The state is the KD context made by   *)
(* kdinit (its array references and particle table), the engine's          *)
(* reference counts on the host's numpy arrays, the smoothing context made *)
(* by nn_start, and one populate() call per worker thread.                 *)
(*                                                                         *)
(* kd.c and smooth.c are not part of the source at hand; the operators     *)
(* that stand for their functions (kdBuildTree, kdFinish, smInit,          *)
(* smSmoothInitStep, smGetNext, smSmoothStep, smBallGather, smDensity,     *)
(* smDomainDecomposition, smInitThreadLocalCopy, smFinishThreadLocalCopy)  *)
(* follow the specification's description of them.                         *)
(***************************************************************************)
EXTENDS Integers, Sequences, FiniteSets, TLC

VARIABLES
    hostN,      \* number of rows of the host's position array
    kdst,       \* the KD capsule: "none", "live" or "freed"
    kd,         \* struct kdContext as kdmain.c uses it
    refcnt,     \* per host array: Py_INCREFs minus Py_DECREFs done by the engine
    nFinish,    \* how often kdFinish has released the node memory
    data,       \* contents of the host's field arrays
    smx,        \* the global smoothing context (SMX)
    run,        \* the populate() calls the host has dispatched and not yet joined
    pc,         \* per worker thread: position inside populate()
    loc,        \* per worker thread: populate()'s locals and smx_local
    claimed,    \* per worker, per physical index: how often the worker took it
    wrote,      \* <<worker, array, element>> for every output element written
    populated,  \* <<array, element>> for every element a smoothing pass stored
    ret,        \* the last host call and what it returned
    ub,         \* TRUE once a call has dereferenced an invalid pointer
    nCntDone    \* what smSmoothStep returns once the cursor is exhausted

vars == <<hostN, kdst, kd, refcnt, nFinish, data, smx, run, pc, loc,
          claimed, wrote, populated, ret, ub, nCntDone>>

(***************************************************************************)
(* Bounds of the model.                                                    *)
(***************************************************************************)
MaxN == 2
MaxWorkers == 2
NThreads == 4
MaxBucket == 1
MaxRuns == 2

(***************************************************************************)
(* Program constants.                                                      *)
(***************************************************************************)
PROPID_HSM == 1
PROPID_RHO == 2
PROPID_QTY1D == 3
SIZEOF_DOUBLE == 8

ARID_SMOOTH == 0
ARID_DEN == 1
ARID_MASS == 2
ARID_QTY == 3
ARID_QTYSMOOTHED == 4

NULL == "NULL"
GARBAGE == "GARBAGE"

(***************************************************************************)
(* The host's numpy arrays.  "pos" is (hostN,3) double, "mass", "f1" and   *)
(* "f2" are (hostN,) double, "fLong" is double with one element too many   *)
(* and "f32" has hostN elements of 4-byte floats.                          *)
(***************************************************************************)
Arrays == {"pos", "mass", "f1", "f2", "fLong", "f32"}

\* the arrays whose contents the model keeps
DataArrays == {"f1", "f2", "fLong"}

FieldArrays == {"f1", "fLong", "f32"}

PyArray_DIM0(a) == IF a = "fLong" THEN hostN + 1 ELSE hostN

PyArray_DESCR(a) ==
    IF a = "f32" THEN [kind |-> "f", elsize |-> 4]
                 ELSE [kind |-> "f", elsize |-> SIZEOF_DOUBLE]

\* the thread slots of the host, and the thread counts a general pass uses
Workers == 1..NThreads

Procs == 1..MaxWorkers
Particles == 0..(hostN - 1)

\* host data: particle e sits at x = e*e (y = z = 0) and has unit mass
PosX(e) == e * e
Mass(e) == 1

(***************************************************************************)
(* Reference counting and array checks.                                    *)
(***************************************************************************)
Py_INCREF(rc, a) == [rc EXCEPT ![a] = @ + 1]

Py_XDECREF(rc, a) == IF a = NULL THEN rc ELSE [rc EXCEPT ![a] = @ - 1]

\* checkArray without its test for an array that was never given
checkArray_noNullTest(check) ==
    IF check = GARBAGE THEN "UB"
    ELSE LET descr == PyArray_DESCR(check)
         IN  IF descr.kind # "f" \/ descr.elsize # SIZEOF_DOUBLE
             THEN "TypeError"
             ELSE "ok"

\* 0 ("ok") for a double array, else the exception set; reading the
\* descriptor through an uninitialised pointer is undefined ("UB")
checkArray(check) ==
    IF check = NULL THEN "ValueError"
    ELSE IF check = GARBAGE THEN "UB"
    ELSE LET descr == PyArray_DESCR(check)
         IN  IF descr.kind # "f" \/ descr.elsize # SIZEOF_DOUBLE
             THEN "TypeError"
             ELSE "ok"

\* the switch(arid) of set_arrayref and get_arrayref
SlotField(arid) ==
    CASE arid = ARID_SMOOTH       -> "pNumpySmooth"
      [] arid = ARID_DEN          -> "pNumpyDen"
      [] arid = ARID_MASS         -> "pNumpyMass"
      [] arid = ARID_QTY          -> "pNumpyQty"
      [] arid = ARID_QTYSMOOTHED  -> "pNumpyQtySmoothed"
      [] OTHER                    -> "default"

SlotFields == {"pNumpySmooth", "pNumpyDen", "pNumpyMass", "pNumpyQty",
               "pNumpyQtySmoothed"}

Ret(op, err) == [op |-> op, err |-> err]

(***************************************************************************)
(* The particle table.                                                     *)
(***************************************************************************)
\* the numbering loop storing a constant instead of the loop index
InitParticles_constant(nbodies) ==
    [i \in 0..(nbodies - 1) |-> [iOrder |-> 0, iMark |-> 1]]

\* the loop of kdinit that numbers the particles
InitParticles(nbodies) ==
    [i \in 0..(nbodies - 1) |-> [iOrder |-> i, iMark |-> 1]]

Bijections(S) == {f \in [S -> S] : \A x \in S : \E y \in S : f[y] = x}

\* the tree build reorders the particle records in place; every reordering
\* is taken as possible
kdBuildTree(p0) ==
    {[i \in DOMAIN p0 |-> p0[f[i]]] : f \in Bijections(DOMAIN p0)}

NoKD ==
    [nParticles |-> 0, nActive |-> 0, nBucket |-> 0,
     pNumpyPos |-> NULL, pNumpyMass |-> NULL, pNumpySmooth |-> NULL,
     pNumpyDen |-> NULL, pNumpyQty |-> NULL, pNumpyQtySmoothed |-> NULL,
     p |-> InitParticles(0)]

\* seq: the particles nn_next has returned since the cursor was last reset
NoSMX == [st |-> "none", nSmooth |-> 0, pi |-> 0, cursor |-> 0, seq |-> <<>>]

NoLocal == [propid |-> 0, i |-> 0, nCnt |-> 0, ri |-> 0, hsm |-> 0,
            pi |-> 0, pList |-> {}, copy |-> FALSE, err |-> "ok"]

NoRun == [active |-> FALSE, propid |-> 0, nproc |-> 0, fresh |-> FALSE,
          count |-> 0]

RunIdle == ~run.active

(***************************************************************************)
(* kdinit                                                                  *)
(***************************************************************************)
kdinit(nBucket) ==
    /\ ~ub
    /\ kdst = "none"
    /\ LET nbodies == PyArray_DIM0("pos")
       IN  \E uq \in {NULL, GARBAGE}, uqs \in {NULL, GARBAGE},
              p1 \in kdBuildTree(InitParticles(nbodies)) :
              kd' = [nParticles |-> nbodies, nActive |-> nbodies,
                     nBucket |-> nBucket,
                     pNumpyPos |-> "pos", pNumpyMass |-> "mass",
                     pNumpySmooth |-> NULL, pNumpyDen |-> NULL,
                     \* never assigned by kdinit
                     pNumpyQty |-> uq, pNumpyQtySmoothed |-> uqs,
                     p |-> p1]
    /\ refcnt' = Py_INCREF(Py_INCREF(refcnt, "pos"), "mass")
    /\ kdst' = "live"
    /\ ret' = Ret("init", "ok")
    /\ UNCHANGED <<nCntDone, hostN, nFinish, data, smx, run, pc, loc, claimed, wrote, populated, ub>>

(***************************************************************************)
(* kdfree                                                                  *)
(***************************************************************************)
MaxFree == 2

kdFinish(n) == n + 1

kdfree ==
    /\ ~ub
    /\ kdst \in {"live", "freed"}
    /\ RunIdle
    /\ nFinish < MaxFree
    /\ nFinish' = kdFinish(nFinish)
    /\ refcnt' = Py_XDECREF(Py_XDECREF(Py_XDECREF(Py_XDECREF(refcnt,
                     kd.pNumpyPos), kd.pNumpyMass), kd.pNumpySmooth),
                     kd.pNumpyDen)
    /\ kdst' = "freed"
    /\ ret' = Ret("free", "ok")
    /\ UNCHANGED <<nCntDone, hostN, kd, data, smx, run, pc, loc, claimed, wrote, populated, ub>>

(***************************************************************************)
(* set_arrayref                                                            *)
(***************************************************************************)
set_arrayref_body(op, arid, arobj) ==
    LET chk == checkArray(arobj)
        fld == SlotField(arid)
    IN  IF chk = "UB"
        THEN /\ ub' = TRUE
             /\ ret' = Ret(op, "crash")
             /\ UNCHANGED <<kd, refcnt>>
        ELSE IF chk # "ok"
        THEN /\ ret' = Ret(op, chk)
             /\ UNCHANGED <<kd, refcnt, ub>>
        ELSE IF fld = "default"
        THEN /\ ret' = Ret(op, "ValueError")
             /\ UNCHANGED <<kd, refcnt, ub>>
        ELSE IF kd[fld] = GARBAGE
        THEN \* Py_XDECREF through a pointer that was never initialised
             /\ ub' = TRUE
             /\ ret' = Ret(op, "crash")
             /\ UNCHANGED <<kd, refcnt>>
        ELSE /\ refcnt' = Py_INCREF(Py_XDECREF(refcnt, kd[fld]), arobj)
             /\ kd' = [kd EXCEPT ![fld] = arobj]
             /\ ret' = Ret(op, "ok")
             /\ UNCHANGED ub

AridInputs == 0..5
BindInputs == FieldArrays

set_arrayref(arid, arobj) ==
    /\ ~ub
    /\ kdst = "live"
    /\ RunIdle
    /\ set_arrayref_body("set_arrayref", arid, arobj)
    /\ UNCHANGED <<nCntDone, hostN, kdst, nFinish, data, smx, run, pc, loc, claimed, wrote, populated>>


(***************************************************************************)
(* get_arrayref.  The function itself only reads the slot ...              *)
(***************************************************************************)
get_arrayref(arid) ==
    LET fld == SlotField(arid)
    IN  IF fld = "default" THEN "NULL"
        ELSE IF kd[fld] = NULL THEN "None"
        ELSE kd[fld]

(***************************************************************************)
(* ... but kdmain_methods registers set_arrayref under the name            *)
(* "get_arrayref".  A call get_arrayref(kd, arid) therefore runs           *)
(* set_arrayref on a two-element tuple: PyArg_ParseTuple("OiO") fails, its *)
(* result is not looked at, and kdobj, arid and arobj keep whatever the    *)
(* stack held.  The outcomes: the capsule lookup faults; it fails cleanly  *)
(* and NULL is returned; or the stale values are those of an earlier       *)
(* set_arrayref frame and the body runs on them.                           *)
(***************************************************************************)
kdmain_methods_get_arrayref(arid) ==
    /\ ~ub
    /\ kdst = "live"
    /\ RunIdle
    /\ \/ /\ ub' = TRUE
          /\ ret' = Ret("get_arrayref", "crash")
          /\ UNCHANGED <<kd, refcnt>>
       \/ /\ ret' = Ret("get_arrayref", "TypeError")
          /\ UNCHANGED <<kd, refcnt, ub>>
       \/ \E staleArid \in AridInputs, staleObj \in BindInputs \cup {GARBAGE} :
             set_arrayref_body("get_arrayref", staleArid, staleObj)
    /\ UNCHANGED <<nCntDone, hostN, kdst, nFinish, data, smx, run, pc, loc, claimed, wrote, populated>>

(***************************************************************************)
(* domain_decomposition                                                    *)
(***************************************************************************)
\* the processor-count test, rejecting zero as well
NprocInvalid_zero(nproc) == nproc <= 0

NprocInvalid(nproc) == nproc < 0

\* the decomposition leaves the particle table and the array references as
\* they are
smDomainDecomposition(k, nproc) == k

NprocInputs == (-1)..MaxWorkers

domain_decomposition(nproc) ==
    /\ ~ub
    /\ kdst = "live"
    /\ RunIdle
    /\ LET chk == checkArray(kd.pNumpySmooth)
       IN  IF chk # "ok"
           THEN /\ ret' = Ret("domain_decomposition", chk)
                /\ UNCHANGED kd
           ELSE IF NprocInvalid(nproc)
           THEN /\ ret' = Ret("domain_decomposition", "ValueError")
                /\ UNCHANGED kd
           ELSE /\ kd' = smDomainDecomposition(kd, nproc)
                /\ ret' = Ret("domain_decomposition", "ok")
    /\ UNCHANGED <<nCntDone, hostN, kdst, refcnt, nFinish, data, smx, run, pc, loc,
                   claimed, wrote, populated, ub>>

(***************************************************************************)
(* nn_start, nn_stop, nn_rewind                                            *)
(***************************************************************************)
\* smInit refuses a target neighbour count below one
smInit(nSmooth) == nSmooth >= 1

\* the claim cursor and the session's own cursor go back to the start
smSmoothInitStep(s) == [s EXCEPT !.pi = 0, !.cursor = 0, !.seq = <<>>]

\* what nn_start leaves for a target neighbour count
OpenedSession(nSmooth) ==
    smSmoothInitStep([NoSMX EXCEPT !.st = "open", !.nSmooth = nSmooth])

SmoothInputs == {0, 1, 2}

nn_start(nSmooth) ==
    /\ ~ub
    /\ kdst = "live"
    /\ RunIdle
    /\ smx.st # "open"
    /\ IF ~smInit(nSmooth)
       THEN /\ ret' = Ret("nn_start", "RuntimeError")
            /\ UNCHANGED smx
       ELSE /\ smx' = smSmoothInitStep([NoSMX EXCEPT !.st = "open",
                                                     !.nSmooth = nSmooth])
            /\ ret' = Ret("nn_start", "ok")
    /\ UNCHANGED <<nCntDone, hostN, kdst, kd, refcnt, nFinish, data, run, pc, loc,
                   claimed, wrote, populated, ub>>

smFinish(s) == [s EXCEPT !.st = "closed"]

nn_stop ==
    /\ ~ub
    /\ kdst = "live"
    /\ RunIdle
    /\ smx.st = "open"
    /\ smx' = smFinish(smx)
    /\ ret' = Ret("nn_stop", "ok")
    /\ UNCHANGED <<nCntDone, hostN, kdst, kd, refcnt, nFinish, data, run, pc, loc,
                   claimed, wrote, populated, ub>>

\* nn_rewind without its call of smSmoothInitStep
nn_rewind_noReset ==
    /\ ~ub
    /\ kdst = "live"
    /\ RunIdle
    /\ smx.st = "open"
    /\ ret' = Ret("nn_rewind", "ok")
    /\ UNCHANGED <<nCntDone, hostN, kdst, kd, refcnt, nFinish, data, smx, run,
                   pc, loc, claimed, wrote, populated, ub>>

nn_rewind ==
    /\ ~ub
    /\ kdst = "live"
    /\ RunIdle
    /\ smx.st = "open"
    /\ smx' = smSmoothInitStep(smx)
    /\ ret' = Ret("nn_rewind", "ok")
    /\ UNCHANGED <<nCntDone, hostN, kdst, kd, refcnt, nFinish, data, run, pc, loc,
                   claimed, wrote, populated, ub>>


(***************************************************************************)
(* Neighbour search and kernels (smooth.c), over the one-dimensional host  *)
(* positions.                                                              *)
(***************************************************************************)
Abs(x) == IF x < 0 THEN -x ELSE x

Min(a, b) == IF a < b THEN a ELSE b

SetMax(S) == CHOOSE x \in S : \A y \in S : y <= x

Order(i) == kd.p[i].iOrder

Dist(i, j) == Abs(PosX(Order(i)) - PosX(Order(j)))

\* how many particles come before j in the search from i (ties by index)
Rank(i, j) ==
    Cardinality({m \in DOMAIN kd.p :
                    \/ Dist(i, m) < Dist(i, j)
                    \/ Dist(i, m) = Dist(i, j) /\ m < j})

KNearest(i, k) == {j \in DOMAIN kd.p : Rank(i, j) < k}

\* distance to the farthest of the k nearest
ResolvedSmoothingLength(i, k) == SetMax({Dist(i, j) : j \in KNearest(i, k)})

smBallGather(fBall2, ri) ==
    {j \in DOMAIN kd.p :
        (PosX(Order(j)) - ri) * (PosX(Order(j)) - ri) <= fBall2}

GET(a, e) == IF a = "mass" THEN Mass(e) ELSE data[a][e]

GETSMOOTH(i) == GET(kd.pNumpySmooth, Order(i))

RECURSIVE KernelSum(_, _, _)
KernelSum(i, ih2, list) ==
    IF list = {} THEN 0
    ELSE LET j == CHOOSE x \in list : TRUE
         IN  GET(kd.pNumpyMass, Order(j))
               * (4 * ih2 - Dist(i, j) * Dist(i, j) + 1)
             + KernelSum(i, ih2, list \ {j})

\* the density of particle pi from its gathered neighbours
smDensity(pi, pList) == KernelSum(pi, GETSMOOTH(pi) * GETSMOOTH(pi), pList)

(***************************************************************************)
(* The shared claim cursor.                                                *)
(***************************************************************************)
\* atomic: the index handed out, and the cursor after it
smGetNext(s) ==
    [i |-> s.cursor,
     s |-> IF s.cursor < kd.nActive THEN [s EXCEPT !.cursor = @ + 1] ELSE s]

\* the two conventions a step function has for "no particle left": populate
\* tests its result against -1, nn_next against 0
StepDoneValues == {0, -1}

\* nxt is what smGetNext handed out
StepExhausted(nxt) == ~(nxt.i < kd.nActive)

\* the number of neighbours smSmoothStep found, or its exhausted result
smSmoothStep(nxt) ==
    IF StepExhausted(nxt) THEN nCntDone ELSE Min(smx.nSmooth, kd.nActive)

(***************************************************************************)
(* nn_next                                                                 *)
(***************************************************************************)
RetList(pi, hsm, nnList) ==
    [op |-> "nn_next", err |-> "list", pi |-> pi, hsm |-> hsm,
     nnList |-> nnList]

\* the test that decides between a result list and None
NnNextHasResult(nCnt) == nCnt # 0

\* retList[0]
NnNextParticle(s) == s.pi

nn_next ==
    /\ ~ub
    /\ kdst = "live"
    /\ RunIdle
    /\ smx.st = "open"
    /\ LET nxt == smGetNext(smx)
           nCnt == smSmoothStep(nxt)
       IN  IF ~StepExhausted(nxt)
           THEN \* smSmoothStep searches particle nxt.i and stores its
                \* smoothing length, nn_next reads it back
                IF kd.pNumpySmooth \notin DataArrays
                THEN /\ ub' = TRUE
                     /\ ret' = Ret("nn_next", "UB_null")
                     /\ UNCHANGED <<smx, data, populated>>
                ELSE LET s1 == [nxt.s EXCEPT !.pi = nxt.i]
                         hsm == ResolvedSmoothingLength(nxt.i, smx.nSmooth)
                     IN  /\ data' = [data EXCEPT
                                       ![kd.pNumpySmooth][Order(nxt.i)] = hsm]
                         /\ populated' = populated
                               \cup {<<kd.pNumpySmooth, Order(nxt.i)>>}
                         /\ smx' = [s1 EXCEPT
                                      !.seq = Append(@, NnNextParticle(s1))]
                         /\ ret' = RetList(NnNextParticle(s1), hsm,
                                           KNearest(nxt.i, smx.nSmooth))
                         /\ UNCHANGED ub
           ELSE IF NnNextHasResult(nCnt)
           THEN \* a list is built for whatever smx->pi now holds; nothing
                \* was searched, so seq stays
                \E pi \in {smx.pi, nxt.i} :
                   IF pi \notin DOMAIN kd.p
                   THEN /\ ub' = TRUE
                        /\ ret' = Ret("nn_next", "UB_oob")
                        /\ UNCHANGED <<smx, data, populated>>
                   ELSE IF kd.pNumpySmooth \notin DataArrays
                   THEN /\ ub' = TRUE
                        /\ ret' = Ret("nn_next", "UB_null")
                        /\ UNCHANGED <<smx, data, populated>>
                   ELSE /\ smx' = [nxt.s EXCEPT !.pi = pi]
                        /\ ret' = RetList(pi, GET(kd.pNumpySmooth, Order(pi)),
                                          {})
                        /\ UNCHANGED <<data, populated, ub>>
           ELSE /\ smx' = nxt.s
                /\ ret' = Ret("nn_next", "Done")
                /\ UNCHANGED <<data, populated, ub>>
    /\ UNCHANGED <<nCntDone, hostN, kdst, kd, refcnt, nFinish, run, pc, loc,
                   claimed, wrote>>

(***************************************************************************)
(* populate: the host starts nproc threads, each calling                   *)
(* populate(kd, smx, propid, procid), and joins them.                      *)
(***************************************************************************)
PropInputs == 0..PROPID_QTY1D

Dispatch(propid, nproc) ==
    /\ ~ub
    /\ kdst = "live"
    /\ smx.st = "open"
    /\ RunIdle
    /\ run.count < MaxRuns
    /\ run' = [active |-> TRUE, propid |-> propid, nproc |-> nproc,
               fresh |-> (smx.cursor = 0), count |-> run.count + 1]
    /\ pc' = [w \in Workers |-> IF w <= nproc THEN "called" ELSE "idle"]
    /\ loc' = [w \in Workers |-> NoLocal]
    /\ claimed' = [w \in Workers |-> <<>>]
    /\ wrote' = {}
    /\ ret' = Ret("populate", "running")
    /\ UNCHANGED <<nCntDone, hostN, kdst, kd, refcnt, nFinish, data, smx, populated, ub>>

\* the arrays populate checks, in the order it checks them
PopulateChecks(propid) ==
    <<kd.pNumpySmooth>>
    \o (IF propid > PROPID_HSM
        THEN <<kd.pNumpyDen, kd.pNumpyMass, kd.pNumpySmooth>> ELSE <<>>)
    \o (IF propid > PROPID_RHO
        THEN <<kd.pNumpyQty, kd.pNumpyQtySmoothed>> ELSE <<>>)

FirstFailure(cs) ==
    LET bad == {k \in 1..Len(cs) : checkArray(cs[k]) # "ok"}
    IN  IF bad = {} THEN "ok"
        ELSE checkArray(cs[CHOOSE k \in bad : \A m \in bad : k <= m])

smInitThreadLocalCopy(propid) ==
    [NoLocal EXCEPT !.propid = propid, !.copy = TRUE]

\* the copy is freed; populate's own locals end with the call
smFinishThreadLocalCopy(l) == [NoLocal EXCEPT !.propid = l.propid]

HsmLoopCond(i, nbodies) == i < nbodies

HsmBreak(nCnt) == nCnt = -1

\* the loop test of the density pass, off by one
RhoLoopCond_inclusive(i, nbodies) == i <= nbodies

\* the loop test of the density pass, always true
RhoLoopCond_always(i, nbodies) == TRUE

RhoLoopCond(i, nbodies) == i < nbodies

\* the switch with the density case also taken for PROPID_QTY1D
PopulateCase_qtyAsRho(propid) ==
    CASE propid = PROPID_HSM -> "hsm"
      [] propid \in {PROPID_RHO, PROPID_QTY1D} -> "rho"
      [] OTHER -> "none"

\* switch(propid): the two cases that are compiled
PopulateCase(propid) ==
    CASE propid = PROPID_HSM -> "hsm"
      [] propid = PROPID_RHO -> "rho"
      [] OTHER -> "none"

\* argument checks, the thread-local copy and the switch(propid)
populate_enter(w) ==
    /\ ~ub
    /\ pc[w] = "called"
    /\ LET propid == run.propid
           nbodies == PyArray_DIM0(kd.pNumpyPos)
           chk == FirstFailure(PopulateChecks(propid))
       IN  IF chk = "UB"
           THEN /\ ub' = TRUE
                /\ UNCHANGED <<pc, loc>>
           ELSE IF chk # "ok"
           THEN /\ pc' = [pc EXCEPT ![w] = "returned"]
                /\ loc' = [loc EXCEPT ![w].err = chk]
                /\ UNCHANGED ub
           ELSE /\ loc' = [loc EXCEPT ![w] = smInitThreadLocalCopy(propid)]
                /\ pc' = [pc EXCEPT ![w] =
                            CASE PopulateCase(propid) = "hsm" ->
                                   IF HsmLoopCond(0, nbodies)
                                   THEN "hsm_step" ELSE "finish"
                              [] PopulateCase(propid) = "rho" -> "rho_first"
                              [] OTHER -> "finish"]
                /\ UNCHANGED ub
    /\ UNCHANGED <<nCntDone, hostN, kdst, kd, refcnt, nFinish, data, smx, run, claimed,
                   wrote, populated, ret>>

\* the step made on the global context itself: its own position moves
HsmStepContext_global(s, i) == [s EXCEPT !.pi = i]

\* smSmoothStep is called on smx_local: of the global context only the
\* claim cursor (already advanced in s) is touched
HsmStepContext(s, i) == s

\* PROPID_HSM: smSmoothStep takes the next particle from the cursor ...
hsm_step(w) ==
    /\ ~ub
    /\ pc[w] = "hsm_step"
    /\ LET nxt == smGetNext(smx)
           nCnt == smSmoothStep(nxt)
           nbodies == PyArray_DIM0(kd.pNumpyPos)
       IN  /\ smx' = HsmStepContext(nxt.s, nxt.i)
           /\ IF HsmBreak(nCnt)
              THEN /\ loc' = [loc EXCEPT ![w].nCnt = nCnt]
                   /\ pc' = [pc EXCEPT ![w] = "finish"]
                   /\ UNCHANGED claimed
              ELSE IF StepExhausted(nxt)
              THEN \* nothing was searched; the loop counts on
                   /\ loc' = [loc EXCEPT ![w].nCnt = nCnt, ![w].i = @ + 1]
                   /\ pc' = [pc EXCEPT ![w] =
                                IF HsmLoopCond(loc[w].i + 1, nbodies)
                                THEN "hsm_step" ELSE "finish"]
                   /\ UNCHANGED claimed
              ELSE /\ loc' = [loc EXCEPT ![w].nCnt = nCnt, ![w].pi = nxt.i]
                   /\ pc' = [pc EXCEPT ![w] = "hsm_write"]
                   /\ claimed' = [claimed EXCEPT ![w] = Append(@, nxt.i)]
    /\ UNCHANGED <<nCntDone, hostN, kdst, kd, refcnt, nFinish, data, run, wrote,
                   populated, ret, ub>>

\* ... searches its neighbours and stores its smoothing length
hsm_write(w) ==
    /\ ~ub
    /\ pc[w] = "hsm_write"
    /\ LET pi == loc[w].pi
           nbodies == PyArray_DIM0(kd.pNumpyPos)
           list == KNearest(pi, smx.nSmooth)
       IN  /\ data' = [data EXCEPT ![kd.pNumpySmooth][Order(pi)] =
                          ResolvedSmoothingLength(pi, smx.nSmooth)]
           /\ wrote' = wrote \cup {<<w, kd.pNumpySmooth, Order(pi)>>}
           /\ populated' = populated \cup {<<kd.pNumpySmooth, Order(pi)>>}
           /\ loc' = [loc EXCEPT ![w].pList = list, ![w].i = @ + 1]
           /\ pc' = [pc EXCEPT ![w] =
                        IF HsmLoopCond(loc[w].i + 1, nbodies)
                        THEN "hsm_step" ELSE "finish"]
    /\ UNCHANGED <<nCntDone, hostN, kdst, kd, refcnt, nFinish, smx, run, claimed, ret, ub>>


\* PROPID_RHO: the first claim, made before the loop
rho_claim(w, at) ==
    /\ ~ub
    /\ pc[w] = at
    /\ LET nxt == smGetNext(smx)
           nbodies == PyArray_DIM0(kd.pNumpyPos)
       IN  /\ smx' = nxt.s
           /\ loc' = [loc EXCEPT ![w].i = nxt.i]
           /\ IF RhoLoopCond(nxt.i, nbodies)
              THEN /\ pc' = [pc EXCEPT ![w] = "rho_read"]
                   /\ claimed' = [claimed EXCEPT ![w] = Append(@, nxt.i)]
              ELSE /\ pc' = [pc EXCEPT ![w] = "finish"]
                   /\ UNCHANGED claimed
    /\ UNCHANGED <<nCntDone, hostN, kdst, kd, refcnt, nFinish, data, run, wrote,
                   populated, ret, ub>>

rho_first(w) == rho_claim(w, "rho_first")

\* the position copied at an index of the table other than the particle's
RhoPosition_unordered(i) == PosX(i)

\* ri[]: the position of particle i, stored at its iOrder in the host array
RhoPosition(i) == PosX(Order(i))

\* copy the particle's position and fetch its smoothing length
rho_read(w) ==
    /\ ~ub
    /\ pc[w] = "rho_read"
    /\ IF loc[w].i \notin DOMAIN kd.p
       THEN \* a read past the end of the particle table
            /\ ub' = TRUE
            /\ UNCHANGED <<pc, loc>>
       ELSE /\ loc' = [loc EXCEPT ![w].ri = RhoPosition(loc[w].i),
                                  ![w].hsm = GETSMOOTH(loc[w].i)]
            /\ pc' = [pc EXCEPT ![w] = "rho_gather"]
            /\ UNCHANGED ub
    /\ UNCHANGED <<nCntDone, hostN, kdst, kd, refcnt, nFinish, data, smx, run, claimed,
                   wrote, populated, ret>>

\* the ball taken with radius hsm/2 instead of 2*hsm
RhoBall2_half(hsm) == (hsm * hsm) \div 4

\* fBall2 passed to smBallGather
RhoBall2(hsm) == 4 * hsm * hsm

\* the ball query with radius squared 4*hsm*hsm
rho_gather(w) ==
    /\ ~ub
    /\ pc[w] = "rho_gather"
    /\ LET list == smBallGather(RhoBall2(loc[w].hsm), loc[w].ri)
       IN  loc' = [loc EXCEPT ![w].pList = list,
                              ![w].nCnt = Cardinality(list)]
    /\ pc' = [pc EXCEPT ![w] = "rho_density"]
    /\ UNCHANGED <<nCntDone, hostN, kdst, kd, refcnt, nFinish, data, smx, run, claimed,
                   wrote, populated, ret, ub>>

\* smDensity called for the first particle instead of the claimed one
RhoDensityTarget_first(l) == 0

\* the particle smDensity is called for
RhoDensityTarget(l) == l.i

\* the kernel sum, stored in the density array at the particle's iOrder
rho_density(w) ==
    /\ ~ub
    /\ pc[w] = "rho_density"
    /\ LET pi == RhoDensityTarget(loc[w])
       IN  /\ data' = [data EXCEPT ![kd.pNumpyDen][Order(pi)] =
                          smDensity(pi, loc[w].pList)]
           /\ wrote' = wrote \cup {<<w, kd.pNumpyDen, Order(pi)>>}
    /\ pc' = [pc EXCEPT ![w] = "rho_next"]
    /\ UNCHANGED <<nCntDone, hostN, kdst, kd, refcnt, nFinish, smx, run, loc, claimed,
                   populated, ret, ub>>

\* select the next particle in coordination with the other threads
rho_next(w) == rho_claim(w, "rho_next")

populate_finish(w) ==
    /\ ~ub
    /\ pc[w] = "finish"
    /\ loc' = [loc EXCEPT ![w] = smFinishThreadLocalCopy(@)]
    /\ pc' = [pc EXCEPT ![w] = "returned"]
    /\ UNCHANGED <<nCntDone, hostN, kdst, kd, refcnt, nFinish, data, smx, run, claimed,
                   wrote, populated, ret, ub>>

AllReturned == run.active /\ \A w \in 1..run.nproc : pc[w] = "returned"

Join ==
    /\ ~ub
    /\ AllReturned
    /\ run' = [run EXCEPT !.active = FALSE]
    /\ pc' = [w \in Workers |-> "idle"]
    /\ ret' = Ret("populate", IF \A w \in 1..run.nproc : loc[w].err = "ok"
                  THEN "ok" ELSE "error")
    /\ loc' = [w \in Workers |-> NoLocal]
    /\ claimed' = [w \in Workers |-> <<>>]
    /\ wrote' = {}
    /\ UNCHANGED <<nCntDone, hostN, kdst, kd, refcnt, nFinish, data, smx, populated, ub>>

(***************************************************************************)
(* The host program: any sequence of calls into the module.                *)
(***************************************************************************)
BucketInputs == 0..MaxBucket

Init ==
    /\ hostN \in 0..MaxN
    /\ kdst = "none"
    /\ kd = NoKD
    /\ refcnt = [a \in Arrays |-> 0]
    /\ nFinish = 0
    /\ data = [a \in DataArrays |-> [e \in 0..(PyArray_DIM0(a) - 1) |-> 0]]
    /\ smx = NoSMX
    /\ run = NoRun
    /\ pc = [w \in Workers |-> "idle"]
    /\ loc = [w \in Workers |-> NoLocal]
    /\ claimed = [w \in Workers |-> <<>>]
    /\ wrote = {}
    /\ populated = {}
    /\ ret = Ret("none", "ok")
    /\ ub = FALSE
    \* no call of this specification steps a session
    /\ nCntDone = -1

Worker(w) ==
    \/ populate_enter(w)
    \/ hsm_step(w)
    \/ hsm_write(w)
    \/ rho_first(w)
    \/ rho_read(w)
    \/ rho_gather(w)
    \/ rho_density(w)
    \/ rho_next(w)
    \/ populate_finish(w)

Next ==
    \/ \E nBucket \in BucketInputs : kdinit(nBucket)
    \/ kdfree
    \/ \E arid \in AridInputs, arobj \in BindInputs : set_arrayref(arid, arobj)
    \/ \E arid \in AridInputs : kdmain_methods_get_arrayref(arid)
    \/ \E nproc \in NprocInputs : domain_decomposition(nproc)

Spec == Init /\ [][Next]_vars


(***************************************************************************)
(* The pipeline: an index that has been built and bound, on which the host *)
(* opens sessions and runs populate passes with up to MaxWorkers threads.  *)
(***************************************************************************)
\* <<pNumpySmooth, pNumpyDen, pNumpyQty, pNumpyQtySmoothed>> as kdinit and
\* set_arrayref may have left them
RunBindings ==
    {<<NULL, NULL, NULL, NULL>>,
     <<"f1", NULL, NULL, NULL>>,
     <<"f1", "f2", "f1", "f2">>,
     <<"f1", "f2", GARBAGE, GARBAGE>>}

HeldBy(k, a) ==
    Cardinality({fld \in SlotFields \cup {"pNumpyPos"} : k[fld] = a})

InitIndex ==
    /\ hostN \in 0..MaxN
    /\ kdst = "live"
    /\ \E b \in RunBindings, p1 \in kdBuildTree(InitParticles(hostN)) :
          kd = [nParticles |-> hostN, nActive |-> hostN, nBucket |-> 1,
                pNumpyPos |-> "pos", pNumpyMass |-> "mass",
                pNumpySmooth |-> b[1], pNumpyDen |-> b[2],
                pNumpyQty |-> b[3], pNumpyQtySmoothed |-> b[4],
                p |-> p1]
    /\ refcnt = [a \in Arrays |-> HeldBy(kd, a)]
    /\ nFinish = 0
    /\ data = [a \in DataArrays |-> [e \in 0..(PyArray_DIM0(a) - 1) |-> 0]]
    /\ smx = NoSMX
    /\ run = NoRun
    /\ pc = [w \in Workers |-> "idle"]
    /\ loc = [w \in Workers |-> NoLocal]
    /\ claimed = [w \in Workers |-> <<>>]
    /\ wrote = {}
    /\ populated = {}
    /\ ret = Ret("init", "ok")
    /\ ub = FALSE

\* the pipeline runs against the step function populate is written for
InitRun == InitIndex /\ nCntDone = -1

NextRun ==
    \/ \E nSmooth \in SmoothInputs : nn_start(nSmooth)
    \/ nn_stop
    \/ nn_rewind
    \/ \E propid \in PropInputs, nproc \in Procs : Dispatch(propid, nproc)
    \/ \E w \in Procs : Worker(w)
    \/ Join

SpecRun == InitRun /\ [][NextRun]_vars

(***************************************************************************)
(* Density passes with one thread or with every thread slot, on an index   *)
(* whose smoothing lengths have been stored by an earlier pass.            *)
(***************************************************************************)
WorkerRho(w) ==
    \/ populate_enter(w)
    \/ rho_first(w)
    \/ rho_read(w)
    \/ rho_gather(w)
    \/ rho_density(w)
    \/ rho_next(w)
    \/ populate_finish(w)

InitPopulated ==
    /\ hostN \in 1..MaxN
    /\ kdst = "live"
    /\ \E p1 \in kdBuildTree(InitParticles(hostN)) :
          kd = [nParticles |-> hostN, nActive |-> hostN, nBucket |-> 1,
                pNumpyPos |-> "pos", pNumpyMass |-> "mass",
                pNumpySmooth |-> "f1", pNumpyDen |-> "f2",
                pNumpyQty |-> NULL, pNumpyQtySmoothed |-> NULL,
                p |-> p1]
    /\ refcnt = [a \in Arrays |-> HeldBy(kd, a)]
    /\ nFinish = 0
    /\ \E nSmooth \in SmoothInputs :
          /\ smInit(nSmooth)
          /\ smx = OpenedSession(nSmooth)
          /\ data = [a \in DataArrays |->
                       [e \in 0..(PyArray_DIM0(a) - 1) |->
                          IF a = "f1" /\ e < hostN
                          THEN ResolvedSmoothingLength(
                                 CHOOSE i \in DOMAIN kd.p : Order(i) = e,
                                 nSmooth)
                          ELSE 0]]
    /\ populated = {<<"f1", e>> : e \in 0..(hostN - 1)}
    /\ run = NoRun
    /\ pc = [w \in Workers |-> "idle"]
    /\ loc = [w \in Workers |-> NoLocal]
    /\ claimed = [w \in Workers |-> <<>>]
    /\ wrote = {}
    /\ ret = Ret("populate", "ok")
    /\ ub = FALSE

InitDen == InitPopulated /\ nCntDone = -1

NextDen ==
    \/ nn_rewind
    \/ \E nproc \in {1, NThreads} : Dispatch(PROPID_RHO, nproc)
    \/ \E w \in Workers : WorkerRho(w)
    \/ Join

SpecDen == InitDen /\ [][NextDen]_vars

(***************************************************************************)
(* Passes under a fair scheduler: a thread that can take a step of its     *)
(* populate call eventually takes one, and the host joins the threads once *)
(* all have returned.  The session is not rewound between the passes, so   *)
(* later passes start on an exhausted cursor.                              *)
(***************************************************************************)
InitFair == InitPopulated /\ nCntDone \in StepDoneValues

NextFair ==
    \/ \E propid \in {PROPID_HSM, PROPID_RHO}, nproc \in Procs :
          Dispatch(propid, nproc)
    \/ \E w \in Procs : Worker(w)
    \/ Join

SpecFair ==
    /\ InitFair
    /\ [][NextFair]_vars
    /\ \A w \in Procs : WF_vars(Worker(w))
    /\ WF_vars(Join)

(***************************************************************************)
(* Sessions: the host steps a session with nn_next, rewinds it, and runs   *)
(* smoothing-length passes on it.                                          *)
(***************************************************************************)
WorkerHsm(w) ==
    \/ populate_enter(w)
    \/ hsm_step(w)
    \/ hsm_write(w)
    \/ populate_finish(w)

NextStep ==
    \/ \E nSmooth \in SmoothInputs : nn_start(nSmooth)
    \/ nn_next
    \/ nn_stop
    \/ nn_rewind
    \/ \E nproc \in Procs : Dispatch(PROPID_HSM, nproc)
    \/ \E w \in Procs : WorkerHsm(w)
    \/ Join

\* either convention of the step function
InitStep == InitIndex /\ nCntDone \in StepDoneValues

SpecStep == InitStep /\ [][NextStep]_vars


(***************************************************************************)
(* Properties.                                                             *)
(***************************************************************************)
AllClaims == {<<w, k>> \in Workers \X (1..(MaxN + 1)) : k <= Len(claimed[w])}

ClaimCount(i) == Cardinality({c \in AllClaims : claimed[c[1]][c[2]] = i})

ValidationPasses == FirstFailure(PopulateChecks(run.propid)) = "ok"

\* C1: in a smoothing-length or density pass that starts with the claim
\* cursor at the start, no physical index is ever taken twice (by one worker
\* or by two), only indices of active particles are taken, and once every
\* worker has returned each index in [0, n) has been taken exactly once.
C1_ClaimedExactlyOnce ==
    (run.active /\ run.propid \in {PROPID_HSM, PROPID_RHO}) =>
        /\ \A c \in AllClaims : claimed[c[1]][c[2]] \in 0..(kd.nActive - 1)
        /\ \A i \in 0..MaxN : ClaimCount(i) <= 1
        /\ (AllReturned /\ run.fresh /\ ValidationPasses) =>
              \A i \in 0..(kd.nActive - 1) : ClaimCount(i) = 1

C1_Witness ==
    /\ AllReturned
    /\ run.fresh
    /\ run.nproc >= 2
    /\ kd.nActive >= 2
    /\ Len(claimed[1]) >= 1
    /\ Len(claimed[2]) >= 1

\* C2: every output element written during a pass was written by one
\* worker only, that worker had claimed the particle the element belongs
\* to, and the element lies in the pass's output array.
C2_WritesByClaimer ==
    \A t \in wrote :
        /\ \E k \in 1..Len(claimed[t[1]]) :
              /\ claimed[t[1]][k] \in DOMAIN kd.p
              /\ Order(claimed[t[1]][k]) = t[3]
        /\ \A u \in wrote : (u[2] = t[2] /\ u[3] = t[3]) => u[1] = t[1]
        /\ t[2] = IF run.propid = PROPID_HSM THEN kd.pNumpySmooth
                                              ELSE kd.pNumpyDen

C2_Witness ==
    \E t \in wrote, u \in wrote :
        t[1] # u[1] /\ t[2] = u[2] /\ run.propid = PROPID_RHO

SmoothPopulated ==
    /\ kd.pNumpySmooth # NULL
    /\ \A e \in Particles : <<kd.pNumpySmooth, e>> \in populated

NothingDone ==
    /\ wrote = {}
    /\ \A w \in Workers :
          /\ claimed[w] = <<>>
          /\ ~loc[w].copy
          /\ pc[w] \in {"idle", "called", "returned"}
          /\ pc[w] = "returned" => loc[w].err \in {"ValueError", "TypeError"}

\* C3 as stated: a density pass dispatched while the smoothing-length field
\* is unbound or was never populated fails and does nothing.
C3_GateUnboundOrUnpopulated ==
    (run.active /\ run.propid = PROPID_RHO
        /\ (kd.pNumpySmooth = NULL \/ ~SmoothPopulated)) => NothingDone

\* C3, amended: a density pass dispatched while the smoothing-length field
\* is unbound fails with an error in every worker, claims no particle,
\* writes no element and makes no thread-local copy.
C3_GateUnbound ==
    (run.active /\ run.propid = PROPID_RHO /\ kd.pNumpySmooth = NULL)
        => NothingDone

C3_Witness ==
    /\ run.active
    /\ run.propid = PROPID_RHO
    /\ kd.pNumpySmooth = NULL
    /\ pc[1] = "returned"
    /\ loc[1].err = "ValueError"


IsDoubleArray(a) ==
    /\ a \in Arrays
    /\ PyArray_DESCR(a) = [kind |-> "f", elsize |-> SIZEOF_DOUBLE]

\* C4: domain_decomposition succeeds exactly when the smoothing array is
\* bound and of type double and nproc >= 0 (zero included); when it fails
\* it leaves every array reference, reference count and array content as
\* it was.
C4_DecomposeValidates ==
    [][\A nproc \in NprocInputs :
          domain_decomposition(nproc) =>
             /\ (ret'.err = "ok")
                   <=> (IsDoubleArray(kd.pNumpySmooth) /\ nproc >= 0)
             /\ ret'.err # "ok" =>
                   /\ ret'.err \in {"ValueError", "TypeError"}
                   /\ UNCHANGED <<kd, refcnt, data>>]_vars

C4_Witness ==
    /\ ret = Ret("domain_decomposition", "ValueError")
    /\ IsDoubleArray(kd.pNumpySmooth)

\* C5: every array a slot is bound to has as many elements as the index
\* has particles and holds doubles.
C5_BoundArraysMatchParticleCount ==
    kdst = "live" =>
        \A fld \in SlotFields :
            kd[fld] \in Arrays =>
                /\ PyArray_DIM0(kd[fld]) = kd.nParticles
                /\ IsDoubleArray(kd[fld])

\* C6: a get_arrayref call returns without error and changes no array
\* reference and no reference count.
C6_GetFieldReadOnly ==
    [][\A arid \in AridInputs :
          kdmain_methods_get_arrayref(arid) =>
             /\ ret'.err = "ok"
             /\ UNCHANGED <<kd, refcnt, ub>>]_vars

\* C7: kdfree on an index that has been freed already releases nothing
\* again: node memory and reference counts stay as the first call left
\* them.
C7_TeardownIdempotent ==
    [][(kdfree /\ kdst = "freed") => UNCHANGED <<refcnt, nFinish, kd>>]_vars

\* C8: after the index has been destroyed (once) the engine holds no
\* reference to any host array.
C8_NoReferenceAfterDestroy ==
    (kdst = "freed" /\ nFinish = 1) => \A a \in Arrays : refcnt[a] = 0

\* C9: no index exists, and no reference is held, for a bucket capacity
\* below one or an empty position array.
C9_InitRejectsInvalid ==
    (kd.nBucket < 1 \/ hostN = 0) =>
        /\ kdst = "none"
        /\ \A a \in Arrays : refcnt[a] = 0

\* C10: while the index lives, the particle table has one record per
\* physical index in [0, n) and every original index in [0, n) is the
\* iOrder of exactly one record.
C10_OrderIsPermutation ==
    kdst = "live" =>
        /\ DOMAIN kd.p = 0..(kd.nParticles - 1)
        /\ \A e \in 0..(kd.nParticles - 1) :
              Cardinality({i \in DOMAIN kd.p : kd.p[i].iOrder = e}) = 1

C10_Witness ==
    /\ kdst = "live"
    /\ kd.nParticles = 2
    /\ kd.nBucket >= 1
    /\ kd.p[0].iOrder = 1
    /\ ret.op # "init"

\* C11: once the cursor has passed the last particle, the exhausted result of
\* the step is taken as Done by nn_next (it returns None, not a list) and by
\* the smoothing-length loop of populate (the worker leaves the loop).
C11_ExhaustedIsDone ==
    [][/\ (nn_next /\ StepExhausted(smGetNext(smx))) => ret'.err = "Done"
       /\ \A w \in Workers :
             (hsm_step(w) /\ StepExhausted(smGetNext(smx)))
                => pc'[w] = "finish"]_vars

GenuineResult == ret.op = "nn_next" /\ ret.err = "list" /\ ret.nnList # {}

\* C13: the first element of every result of nn_next is the original index
\* (iOrder) of the particle just searched, whatever order the tree build
\* left the particle table in, and the smoothing length returned with it is
\* the smoothing array's value at that original index.
C13_FirstElementIsOriginalIndex ==
    GenuineResult
      => /\ ret.pi = kd.p[smx.pi].iOrder
         /\ ret.hsm = data[kd.pNumpySmooth][ret.pi]

\* the density of particle i as a function of the host's positions, masses
\* and stored smoothing lengths alone
DensityOf(i) ==
    LET h == data[kd.pNumpySmooth][Order(i)]
    IN  smDensity(i, {j \in DOMAIN kd.p : Dist(i, j) * Dist(i, j) <= 4 * h * h})

PassComplete ==
    /\ AllReturned
    /\ run.propid = PROPID_RHO
    /\ \A w \in 1..run.nproc : loc[w].err = "ok"

\* C14: when a density pass has ended, with one thread or with NThreads
\* threads and in whatever order the threads claimed and stored, every
\* particle's density is the same function of the positions, masses and
\* smoothing lengths.
C14_DensityIndependentOfWorkers ==
    PassComplete
      => \A i \in DOMAIN kd.p : data[kd.pNumpyDen][Order(i)] = DensityOf(i)

\* a pass of NThreads threads in which two threads stored densities
C14_Witness ==
    /\ PassComplete
    /\ run.nproc = NThreads
    /\ hostN = MaxN
    /\ \E w1, w2 \in Workers :
          w1 # w2 /\ claimed[w1] # <<>> /\ claimed[w2] # <<>>
    /\ \E e \in DOMAIN data[kd.pNumpyDen] : data[kd.pNumpyDen][e] # 0

\* C15: under fair scheduling every pass reaches the point where all of its
\* threads have returned from populate; a thread that has left its loop
\* stays out of it until it has returned and been joined, and takes no
\* further particle.
C15_WorkersTerminate ==
    /\ run.active ~> AllReturned
    /\ [][\A w \in Procs :
            /\ pc[w] = "finish"
                 => pc'[w] \in {"finish", "returned"}
                    /\ claimed'[w] = claimed[w]
            /\ pc[w] = "returned"
                 => \/ pc'[w] = "returned" /\ claimed'[w] = claimed[w]
                    \/ pc'[w] = "idle" /\ AllReturned]_vars

\* a pass in which a thread has left its loop after taking every particle
\* while another thread is still inside populate
C15_Witness ==
    /\ run.active
    /\ hostN = MaxN
    /\ \E w1, w2 \in Procs :
          /\ pc[w1] = "returned"
          /\ Len(claimed[w1]) = hostN
          /\ pc[w2] \notin {"idle", "returned"}

\* the steps of one thread's density loop, in program order
RhoOrder ==
    {<<"idle", "called">>, <<"called", "rho_first">>,
     <<"rho_first", "rho_read">>, <<"rho_first", "finish">>,
     <<"rho_read", "rho_gather">>, <<"rho_gather", "rho_density">>,
     <<"rho_density", "rho_next">>,
     <<"rho_next", "rho_read">>, <<"rho_next", "finish">>,
     <<"finish", "returned">>, <<"returned", "idle">>}

WrittenBy(w) == {x \in wrote : x[1] = w}

Last(q) == q[Len(q)]

\* what thread w holds for the particle it is working on
RhoCurrent(w) ==
    LET i == loc[w].i
        h == data[kd.pNumpySmooth][Order(i)]
    IN  /\ claimed[w] # <<>>
        /\ i = Last(claimed[w])
        /\ pc[w] \in {"rho_gather", "rho_density"}
             => loc[w].ri = PosX(Order(i)) /\ loc[w].hsm = h
        /\ pc[w] = "rho_density"
             => loc[w].pList =
                  {j \in DOMAIN kd.p :
                      Dist(i, j) * Dist(i, j) <= 4 * h * h}
        /\ Cardinality(WrittenBy(w)) = Len(claimed[w]) - 1

\* C16: a thread of the density pass goes claim, read, ball query, kernel
\* sum and store, one particle at a time: while it reads, gathers or reduces,
\* the particle is the one it claimed last and all it claimed before are
\* stored; the list it reduces is the ball of radius squared 4*h*h around
\* that particle's position with that particle's smoothing length; it claims
\* again only after the store.
C16_DensityStepOrder ==
    /\ [][\A w \in Workers :
            pc'[w] # pc[w] => <<pc[w], pc'[w]>> \in RhoOrder]_vars
    /\ [](\A w \in Workers :
            /\ pc[w] \in {"rho_read", "rho_gather", "rho_density"}
                 => RhoCurrent(w)
            /\ pc[w] = "rho_next"
                 => /\ <<w, kd.pNumpyDen, Order(loc[w].i)>> \in wrote
                    /\ Cardinality(WrittenBy(w)) = Len(claimed[w]))

\* a thread reducing the second particle it claimed, with a neighbour
\* other than the particle itself in the ball
C16_Witness ==
    \E w \in Workers :
       /\ pc[w] = "rho_density"
       /\ Len(claimed[w]) = 2
       /\ Cardinality(loc[w].pList) > 1

\* C17: after any sequence of set_arrayref calls the engine's references on
\* each host array are as many as the slots bound to it, and no call
\* releases anything but the array its slot was bound to.
C17_ReferencesMatchBindings ==
    /\ (kdst = "live" /\ ~ub) => \A a \in Arrays : refcnt[a] = HeldBy(kd, a)
    /\ ret # Ret("set_arrayref", "crash")

InsidePopulate == {"hsm_step", "hsm_write", "rho_first", "rho_read",
                   "rho_gather", "rho_density", "rho_next", "finish"}

\* C18: a populate call works on its own copy of the smoothing context.  A
\* step of one thread changes no other thread's locals or copy and, of the
\* global context, nothing but the shared claim cursor; a thread holds a
\* copy exactly between the array checks having passed and its return.
C18_ThreadLocalCopies ==
    /\ [][\A w \in Workers :
            Worker(w)
              => /\ \A v \in Workers \ {w} : loc'[v] = loc[v]
                 /\ [smx' EXCEPT !.cursor = smx.cursor] = smx]_vars
    /\ [](\A w \in Workers :
            /\ loc[w].copy <=> pc[w] \in InsidePopulate
            /\ loc[w].copy
                 => FirstFailure(PopulateChecks(run.propid)) = "ok")

\* two threads inside populate, each with its own gathered list
C18_Witness ==
    \E w1, w2 \in Workers :
       /\ w1 # w2
       /\ loc[w1].copy /\ loc[w2].copy
       /\ loc[w1].pList # {} /\ loc[w2].pList # {}
       /\ loc[w1].pList # loc[w2].pList

OtherProperty == run.propid \notin {PROPID_HSM, PROPID_RHO}

\* C20: a populate call whose propid is neither PROPID_HSM nor PROPID_RHO
\* takes no particle from the claim cursor and stores nothing: no step of
\* such a call changes the smoothing context or the contents of any array,
\* whatever the array slots hold.
C20_OtherPropertyNoEffect ==
    /\ [][\A w \in Workers :
            (OtherProperty /\ Worker(w))
              => UNCHANGED <<smx, data, populated, claimed, wrote>>]_vars
    /\ []((run.active /\ OtherProperty)
            => wrote = {} /\ \A w \in Workers : claimed[w] = <<>>)

\* a call for PROPID_QTY1D that has passed every array check, made its
\* copy and gone through the switch, on a session with particles left
C20_Witness ==
    /\ run.active
    /\ run.propid = PROPID_QTY1D
    /\ hostN = MaxN
    /\ smx.cursor = 0
    /\ \E w \in Workers : pc[w] = "finish"

\* C19: no call reads or writes through an array slot that is NULL; in
\* particular nn_next on an index whose smoothing slot was never set does
\* not go through pNumpySmooth.
C19_NoReadThroughUnbound ==
    ~(kd.pNumpySmooth = NULL /\ ret = Ret("nn_next", "UB_null"))

====
